---- MODULE Spec2Model ----
(***************************************************************************)
(* Model of src/bert_score_qe/muse.py: load_vec (the embedding table),     *)
(* read_corpus (the sentence vectorizer) and the scoring loop of main      *)
(* (greedy alignment precision / recall / F1 per line pair).               *)
(*                                                                         *)
(* Words and corpus lines are sequences of one-character strings.          *)
(* Vector components are integers and the averages and F1 are exact        *)
(* rationals [n, d]; a float division by zero yields NaN / Inf / -Inf as   *)
(* numpy's float64 does.                                                   *)
(***************************************************************************)
EXTENDS Integers, Sequences, FiniteSets, TLC

VARIABLES
    \* ---- load_vec(emb_path, nmax) ----
    emb_file,       \* the lines of the file at emb_path, header first
    nmax,           \* the cap
    lv_pc,          \* position in load_vec
    f_pos,          \* lines of f consumed so far
    vectors,        \* list of parsed vectors
    word2id,        \* dict word -> index
    lv_ret,         \* <<(embeddings, id2word, word2id)>> once returned, else NoTable
    lv_err,         \* the exception that left load_vec, or "none"
    \* ---- main, from line 72 ----
    src_lines, tgt_lines,           \* the two corpus files
    src_word2id, src_embeddings,    \* the source table (from load_vec)
    tgt_word2id, tgt_embeddings,    \* the target table (from load_vec)
    pc,                             \* position in main
    rc_pos,                         \* read_corpus: lines consumed
    sentences,                      \* read_corpus: local result list
    src_sentences, tgt_sentences,
    i,                              \* next index of the scoring loop
    src_sent, tgt_sent,
    scores,
    k,                              \* words consumed by the running outer loop
    cur_sum, cur_max,
    R, P, F

loadVars == <<emb_file, nmax, lv_pc, f_pos, vectors, word2id, lv_ret, lv_err>>
mainVars == <<src_lines, tgt_lines, src_word2id, src_embeddings, tgt_word2id,
              tgt_embeddings, pc, rc_pos, sentences, src_sentences,
              tgt_sentences, i, src_sent, tgt_sent, scores, k, cur_sum,
              cur_max, R, P, F>>
vars == <<loadVars, mainVars>>

\* ------------------------------------------------------------ bounds
MaxData == 3        \* data lines of an embedding file
MaxCap == 3         \* largest cap tried
MaxSent == 2        \* words of a sentence in the scoring inputs
MaxLines == 2       \* lines of a corpus in the multi-line inputs
MaxLineLen == 3     \* characters of a line in the tokenization inputs

\* ------------------------------------------------------------ helpers
None == "None"      \* a Python name not yet bound / no value
NoTable == <<>>     \* nothing returned; a returned table t is <<t>>

SeqsUpTo(S, n) == UNION {[1..m -> S] : m \in 0..n}

Range(f) == {f[x] : x \in DOMAIN f}

\* ================================================================
\* load_vec
\* ================================================================

\* A line of the embedding file as line.rstrip().split(' ', 1) sees it:
\* sep says whether the line holds a space; word is the text before the
\* first space, vect the numbers np.fromstring parses from the rest.
EmbWords == {<<>>, <<"a">>, <<"b">>}
EmbVects == {<<1, 0>>, <<0, 1>>, <<5>>}
EmbLines == [word : EmbWords, sep : {TRUE}, vect : EmbVects]
              \cup {[word |-> <<>>, sep |-> FALSE, vect |-> <<>>]}
HeaderLine == [word |-> <<"3">>, sep |-> TRUE, vect |-> <<2>>]
EmbFiles == {<<>>} \cup {<<HeaderLine>> \o d : d \in SeqsUpTo(EmbLines, MaxData)}

InitLoad ==
    /\ emb_file \in EmbFiles
    /\ nmax \in 0..MaxCap
    /\ lv_pc = "open"
    /\ f_pos = 0
    /\ vectors = <<>>
    /\ word2id = <<>>
    /\ lv_ret = NoTable
    /\ lv_err = "none"
    /\ src_lines = <<>> /\ tgt_lines = <<>>
    /\ src_word2id = <<>> /\ src_embeddings = <<>>
    /\ tgt_word2id = <<>> /\ tgt_embeddings = <<>>
    /\ pc = "idle"
    /\ rc_pos = 0 /\ sentences = <<>>
    /\ src_sentences = None /\ tgt_sentences = None
    /\ i = 0 /\ src_sent = None /\ tgt_sent = None
    /\ scores = <<>> /\ k = 0
    /\ cur_sum = None /\ cur_max = None
    /\ R = None /\ P = None /\ F = None

\* the assert of line 18 never firing
WordFoundTwiceIgnored(word, w2i) == FALSE

\* line 18: the condition of the assert
WordFoundTwice(word, w2i) == word \in DOMAIN w2i

\* every word given index 0
NextIdZero(w2i) == 0

\* line 20: the index a new word gets
NextId(w2i) == Cardinality(DOMAIN w2i)

\* line 20: word2id[word] = len(word2id)
DictSet(w2i, word, v) ==
    [w \in DOMAIN w2i \cup {word} |-> IF w = word THEN v ELSE w2i[w]]

\* the cap test passing one word late
CapReachedLate(w2i, cap) == Cardinality(DOMAIN w2i) > cap

\* line 23: the cap test
CapReached(w2i, cap) == Cardinality(DOMAIN w2i) = cap

\* line 25: id2word = {v: k for k, v in word2id.items()}
InvertDict(w2i) ==
    [v \in Range(w2i) |-> CHOOSE w \in DOMAIN w2i : w2i[w] = v]

\* line 26: np.vstack needs at least one row and rows of one length
CanStack(vs) == vs # <<>> /\ \A a, b \in 1..Len(vs) : Len(vs[a]) = Len(vs[b])

Raise(e) ==
    /\ lv_pc' = "raised"
    /\ lv_err' = e
    /\ UNCHANGED <<emb_file, nmax, f_pos, vectors, word2id, lv_ret>>

\* lines 13-14: open the file and discard the header with next(f)
LoadVecOpen ==
    /\ lv_pc = "open"
    /\ IF emb_file = <<>>
       THEN Raise("StopIteration")
       ELSE /\ lv_pc' = "loop"
            /\ f_pos' = 1
            /\ UNCHANGED <<emb_file, nmax, vectors, word2id, lv_ret, lv_err>>
    /\ UNCHANGED mainVars

\* lines 15-24: one iteration of the loop over the data lines
LoadVecLine ==
    /\ lv_pc = "loop"
    /\ f_pos < Len(emb_file)
    /\ LET line == emb_file[f_pos + 1]
           w2i == DictSet(word2id, line.word, NextId(word2id))
       IN  IF ~line.sep
           THEN Raise("ValueError")
           ELSE IF WordFoundTwice(line.word, word2id)
           THEN Raise("AssertionError")
           ELSE /\ vectors' = Append(vectors, line.vect)
                /\ word2id' = w2i
                /\ f_pos' = f_pos + 1
                /\ lv_pc' = IF CapReached(w2i, nmax) THEN "build" ELSE "loop"
                /\ UNCHANGED <<emb_file, nmax, lv_ret, lv_err>>
    /\ UNCHANGED mainVars

\* line 15: the file is exhausted
LoadVecEof ==
    /\ lv_pc = "loop"
    /\ f_pos = Len(emb_file)
    /\ lv_pc' = "build"
    /\ UNCHANGED <<emb_file, nmax, f_pos, vectors, word2id, lv_ret, lv_err>>
    /\ UNCHANGED mainVars

\* lines 25-27: invert the dict, stack the rows, return
LoadVecReturn ==
    /\ lv_pc = "build"
    /\ IF ~CanStack(vectors)
       THEN Raise("ValueError")
       ELSE /\ lv_ret' = <<[embeddings |-> vectors,
                           id2word |-> InvertDict(word2id),
                           word2id |-> word2id]>>
            /\ lv_pc' = "returned"
            /\ UNCHANGED <<emb_file, nmax, f_pos, vectors, word2id, lv_err>>
    /\ UNCHANGED mainVars

NextLoad == LoadVecOpen \/ LoadVecLine \/ LoadVecEof \/ LoadVecReturn

SpecLoad == InitLoad /\ [][NextLoad]_vars

\* ================================================================
\* read_corpus
\* ================================================================

\* str.strip() with no argument removes leading and trailing whitespace
Whitespace == {" ", "\n", "\t"}

RECURSIVE StripLeft(_)
StripLeft(s) ==
    IF s # <<>> /\ Head(s) \in Whitespace THEN StripLeft(Tail(s)) ELSE s

RECURSIVE StripRight(_)
StripRight(s) ==
    IF s # <<>> /\ s[Len(s)] \in Whitespace
    THEN StripRight(SubSeq(s, 1, Len(s) - 1))
    ELSE s

\* line 32: line.strip()
Strip(s) == StripRight(StripLeft(s))

\* line 32: str.split(c) (also line 46, with '-'): always at least one piece
RECURSIVE SplitOn(_, _)
SplitOn(s, c) ==
    IF s = <<>> THEN << <<>> >>
    ELSE LET rest == SplitOn(Tail(s), c)
         IN  IF Head(s) = c
             THEN << <<>> >> \o rest
             ELSE << <<Head(s)>> \o Head(rest) >> \o Tail(rest)

\* line 35: str.lower(), on the letters the inputs use
LowerChar(c) ==
    CASE c = "A" -> "a"
      [] c = "B" -> "b"
      [] c = "H" -> "h"
      [] OTHER -> c

Lower(w) == [n \in 1..Len(w) |-> LowerChar(w[n])]

\* line 44: the character class of re.sub('[\",.:!?()]', '', word)
Punctuation == {"\"", ",", ".", ":", "!", "?", "(", ")"}

RemovePunctuation(w) == SelectSeq(w, LAMBDA c : c \notin Punctuation)

\* a token never split on its hyphens
SubwordsUnsplit(w) == <<w>>

\* lines 45-48: the subwords of a normalized token
Subwords(w) ==
    IF \E n \in 1..Len(w) : w[n] = "-" THEN SplitOn(w, "-") ELSE <<w>>

\* lines 49-55: the vectors of the subwords found in the table
RECURSIVE SubwordVectors(_, _, _)
SubwordVectors(subwords, w2i, emb) ==
    IF subwords = <<>> THEN <<>>
    ELSE LET subword == Head(subwords)
             rest == SubwordVectors(Tail(subwords), w2i, emb)
         IN  IF subword \notin DOMAIN w2i
             THEN rest
             ELSE <<emb[w2i[subword] + 1]>> \o rest

\* lines 34-55: the loop over the tokens of one line
RECURSIVE SentVectors(_, _, _)
SentVectors(sent, w2i, emb) ==
    IF sent = <<>> THEN <<>>
    ELSE LET word == RemovePunctuation(Lower(Head(sent)))
         IN  SubwordVectors(Subwords(word), w2i, emb)
               \o SentVectors(Tail(sent), w2i, emb)

\* lines 32-55: vectors_sent of one line
LineVectors(line, w2i, emb) == SentVectors(SplitOn(Strip(line), " "), w2i, emb)

\* ================================================================
\* the scoring loop of main
\* ================================================================

\* np.dot of two vectors of one dimension
Dot(a, b) ==
    LET RECURSIVE Sum(_)
        Sum(n) == IF n = 0 THEN 0 ELSE a[n] * b[n] + Sum(n - 1)
    IN  Sum(Len(a))

\* lines 87 and 99: the initial running maximum
CurMaxInit == -2

\* lines 87-91: the running maximum of one source word over the target
RecallMax(src_wrd, tgt) ==
    LET RECURSIVE Run(_, _)
        Run(n, m) ==
            IF n > Len(tgt) THEN m
            ELSE LET cur == Dot(src_wrd, tgt[n])
                 IN  Run(n + 1, IF cur > m THEN cur ELSE m)
    IN  Run(1, CurMaxInit)

\* the precision maximum started at 0 instead of -2
PrecisionMaxFromZero(tgt_wrd, src) ==
    LET RECURSIVE Run(_, _)
        Run(n, m) ==
            IF n > Len(src) THEN m
            ELSE LET cur == Dot(src[n], tgt_wrd)
                 IN  Run(n + 1, IF cur > m THEN cur ELSE m)
    IN  Run(1, 0)

\* lines 99-103: the running maximum of one target word over the source
PrecisionMax(tgt_wrd, src) ==
    LET RECURSIVE Run(_, _)
        Run(n, m) ==
            IF n > Len(src) THEN m
            ELSE LET cur == Dot(src[n], tgt_wrd)
                 IN  Run(n + 1, IF cur > m THEN cur ELSE m)
    IN  Run(1, CurMaxInit)

\* Exact rationals [n, d] with d > 0 in lowest terms; d = 0 marks the
\* float64 results of a division by zero: NaN (0/0), Inf, -Inf.
RECURSIVE Gcd(_, _)
Gcd(a, b) == IF b = 0 THEN a ELSE Gcd(b, a % b)

Abs(x) == IF x < 0 THEN -x ELSE x

NaN == [n |-> 0, d |-> 0]
Inf == [n |-> 1, d |-> 0]
NegInf == [n |-> -1, d |-> 0]

\* num / den as floats divide
Divide(num, den) ==
    IF den = 0
    THEN IF num = 0 THEN NaN ELSE IF num > 0 THEN Inf ELSE NegInf
    ELSE LET g == Gcd(Abs(num), Abs(den))
             sgn == IF den < 0 THEN -1 ELSE 1
         IN  [n |-> sgn * (num \div g), d |-> sgn * (den \div g)]

\* line 81: the score appended for a pair with an empty side
One == [n |-> 1, d |-> 1]

\* line 108: F = 2 * P * R / (P + R)
F1(p, r) == Divide(2 * p.n * r.n, p.n * r.d + r.n * p.d)

\* lines 85-93 as one function of the pair: R
RecallOf(s, t) ==
    LET RECURSIVE Sum(_)
        Sum(n) == IF n = 0 THEN 0 ELSE Sum(n - 1) + RecallMax(s[n], t)
    IN  Divide(Sum(Len(s)), Len(s))

\* lines 97-105 as one function of the pair: P
PrecisionOf(s, t) ==
    LET RECURSIVE Sum(_)
        Sum(n) == IF n = 0 THEN 0 ELSE Sum(n - 1) + PrecisionMax(t[n], s)
    IN  Divide(Sum(Len(t)), Len(t))

\* lines 79-110 as one function of the pair: the score appended
PairScore(s, t) ==
    IF Len(s) = 0 \/ Len(t) = 0 THEN One ELSE F1(PrecisionOf(s, t), RecallOf(s, t))

\* ---------------------------------------------------------------
\* Inputs of main: two tables as load_vec returns them, two corpus files.
\* A corpus line is its text followed by the newline the file iterator
\* leaves on it.
\* ---------------------------------------------------------------
Table(words, rows) ==
    [word2id |-> [w \in Range(words) |->
                     (CHOOSE n \in 1..Len(words) : words[n] = w) - 1],
     embeddings |-> rows]

\* the table of the scoring inputs: "a" and "b" are orthogonal, "a" and "c"
\* have a dot product below -2
ScoreTable ==
    Table(<< <<"a">>, <<"b">>, <<"c">> >>, << <<1, 0>>, <<0, 1>>, <<-3, 0>> >>)

ScoreWords == {<<"a">>, <<"b">>, <<"c">>}

RECURSIVE Join(_)
Join(ws) ==
    IF ws = <<>> THEN <<>>
    ELSE IF Len(ws) = 1 THEN Head(ws)
    ELSE Head(ws) \o <<" ">> \o Join(Tail(ws))

TextLine(text) == text \o <<"\n">>

\* one line per side, every sentence of up to MaxSent table words
ScoreLines == {TextLine(Join(ws)) : ws \in SeqsUpTo(ScoreWords, MaxSent)}

\* several lines per side: an empty line, an all-OOV line, two scored lines
ShortLines ==
    {TextLine(<<>>), TextLine(<<"x">>), TextLine(<<"a">>),
     TextLine(<<"b", " ", "c">>)}

\* tables of the tokenization inputs; the empty word is a key load_vec
\* registers for a data line that starts with a space
TokTables ==
    {Table(<< <<"a">>, <<"b">> >>, << <<1, 0>>, <<0, 1>> >>),
     Table(<< <<>>, <<"a">> >>, << <<2, 1>>, <<1, 0>> >>),
     Table(<< <<"b">>, <<"a", "b">>, <<>> >>, << <<0, 1>>, <<1, 0>>, <<2, 1>> >>)}

TokChars == {"a", "B", " ", ",", "-"}

TokLines == {TextLine(t) : t \in SeqsUpTo(TokChars, MaxLineLen)}

\* the tokenization example: Hello, world-wide!
HelloLine ==
    TextLine(<<"H", "e", "l", "l", "o", ",", " ", "w", "o", "r", "l", "d", "-",
               "w", "i", "d", "e", "!">>)

HelloTable ==
    Table(<< <<"h", "e", "l", "l", "o">>, <<"w", "o", "r", "l", "d">>,
             <<"w", "i", "d", "e">> >>,
          << <<1, 0>>, <<0, 1>>, <<2, 1>> >>)

MainInputs ==
    \/ /\ src_lines \in [1..1 -> ScoreLines]
       /\ tgt_lines \in [1..1 -> ScoreLines]
       /\ src_word2id = ScoreTable.word2id
       /\ src_embeddings = ScoreTable.embeddings
    \/ /\ src_lines \in SeqsUpTo(ShortLines, MaxLines)
       /\ tgt_lines \in SeqsUpTo(ShortLines, MaxLines)
       /\ src_word2id = ScoreTable.word2id
       /\ src_embeddings = ScoreTable.embeddings
    \/ /\ src_lines \in [1..1 -> TokLines]
       /\ tgt_lines = <<TextLine(<<"a">>)>>
       /\ \E t \in TokTables :
            src_word2id = t.word2id /\ src_embeddings = t.embeddings
    \/ /\ src_lines = <<HelloLine>>
       /\ tgt_lines = <<TextLine(<<"a">>)>>
       /\ src_word2id = HelloTable.word2id
       /\ src_embeddings = HelloTable.embeddings

InitMain ==
    /\ MainInputs
    /\ tgt_word2id = ScoreTable.word2id
    /\ tgt_embeddings = ScoreTable.embeddings
    /\ pc = "read_src"
    /\ rc_pos = 0 /\ sentences = <<>>
    /\ src_sentences = None /\ tgt_sentences = None
    /\ i = 0 /\ src_sent = None /\ tgt_sent = None
    /\ scores = <<>> /\ k = 0
    /\ cur_sum = None /\ cur_max = None
    /\ R = None /\ P = None /\ F = None
    /\ emb_file = <<>> /\ nmax = 0 /\ lv_pc = "idle" /\ f_pos = 0
    /\ vectors = <<>> /\ word2id = <<>> /\ lv_ret = NoTable /\ lv_err = "none"

\* the file, dict and matrix of the running read_corpus call
RcFile == IF pc = "read_src" THEN src_lines ELSE tgt_lines
RcWord2id == IF pc = "read_src" THEN src_word2id ELSE tgt_word2id
RcEmbeddings == IF pc = "read_src" THEN src_embeddings ELSE tgt_embeddings

\* lines 31-58: one line of the corpus file
ReadCorpusLine ==
    /\ pc \in {"read_src", "read_tgt"}
    /\ rc_pos < Len(RcFile)
    /\ sentences' = Append(sentences,
                           LineVectors(RcFile[rc_pos + 1], RcWord2id, RcEmbeddings))
    /\ rc_pos' = rc_pos + 1
    /\ UNCHANGED <<src_lines, tgt_lines, src_word2id, src_embeddings,
                   tgt_word2id, tgt_embeddings, pc, src_sentences,
                   tgt_sentences, i, src_sent, tgt_sent, scores, k, cur_sum,
                   cur_max, R, P, F>>
    /\ UNCHANGED loadVars

\* lines 59 and 72: read_corpus returns the source sentences; line 73 calls
\* it for the target (line 30: a fresh list)
ReadSrcReturn ==
    /\ pc = "read_src"
    /\ rc_pos = Len(src_lines)
    /\ src_sentences' = sentences
    /\ pc' = "read_tgt"
    /\ rc_pos' = 0
    /\ sentences' = <<>>
    /\ UNCHANGED <<src_lines, tgt_lines, src_word2id, src_embeddings,
                   tgt_word2id, tgt_embeddings, tgt_sentences, i, src_sent,
                   tgt_sent, scores, k, cur_sum, cur_max, R, P, F>>
    /\ UNCHANGED loadVars

\* lines 59 and 73: read_corpus returns the target sentences; line 75
ReadTgtReturn ==
    /\ pc = "read_tgt"
    /\ rc_pos = Len(tgt_lines)
    /\ tgt_sentences' = sentences
    /\ scores' = <<>>
    /\ i' = 0
    /\ pc' = "loop"
    /\ UNCHANGED <<src_lines, tgt_lines, src_word2id, src_embeddings,
                   tgt_word2id, tgt_embeddings, rc_pos, sentences,
                   src_sentences, src_sent, tgt_sent, k, cur_sum, cur_max,
                   R, P, F>>
    /\ UNCHANGED loadVars

inputVars == <<src_lines, tgt_lines, src_word2id, src_embeddings, tgt_word2id,
               tgt_embeddings, rc_pos, sentences, src_sentences, tgt_sentences>>

\* the test of line 79 with "and" in place of "or"
EitherEmptyAsBoth(s, t) == Len(s) = 0 /\ Len(t) = 0

\* line 79: len(src_sent) == 0 or len(tgt_sent) == 0
EitherEmpty(s, t) == Len(s) = 0 \/ Len(t) = 0

\* the fallback skipping the pair without a score
SkipScore(sc, x) == sc

\* lines 81 and 110: scores.append(x)
AppendScore(sc, x) == Append(sc, x)

\* lines 76-82: a pair with an empty side gets the score 1
ScoreFallback ==
    /\ pc = "loop"
    /\ i < Len(src_sentences)
    /\ i < Len(tgt_sentences)
    /\ EitherEmpty(src_sentences[i + 1], tgt_sentences[i + 1])
    /\ src_sent' = src_sentences[i + 1]
    /\ tgt_sent' = tgt_sentences[i + 1]
    /\ scores' = AppendScore(scores, One)
    /\ i' = i + 1
    /\ UNCHANGED <<pc, k, cur_sum, cur_max, R, P, F>>
    /\ UNCHANGED inputVars
    /\ UNCHANGED loadVars

\* lines 76-78: the target corpus has no line i
ScoreIndexError ==
    /\ pc = "loop"
    /\ i < Len(src_sentences)
    /\ i >= Len(tgt_sentences)
    /\ src_sent' = src_sentences[i + 1]
    /\ pc' = "IndexError"
    /\ UNCHANGED <<tgt_sent, scores, i, k, cur_sum, cur_max, R, P, F>>
    /\ UNCHANGED inputVars
    /\ UNCHANGED loadVars

\* lines 76-79 and 85: both sides hold vectors; the recall loop starts
RecallBegin ==
    /\ pc = "loop"
    /\ i < Len(src_sentences)
    /\ i < Len(tgt_sentences)
    /\ ~EitherEmpty(src_sentences[i + 1], tgt_sentences[i + 1])
    /\ src_sent' = src_sentences[i + 1]
    /\ tgt_sent' = tgt_sentences[i + 1]
    /\ cur_sum' = 0
    /\ k' = 0
    /\ pc' = "recall"
    /\ UNCHANGED <<scores, i, cur_max, R, P, F>>
    /\ UNCHANGED inputVars
    /\ UNCHANGED loadVars

\* lines 86-92: one source word
RecallWord ==
    /\ pc = "recall"
    /\ k < Len(src_sent)
    /\ cur_max' = RecallMax(src_sent[k + 1], tgt_sent)
    /\ cur_sum' = cur_sum + cur_max'
    /\ k' = k + 1
    /\ UNCHANGED <<pc, src_sent, tgt_sent, scores, i, R, P, F>>
    /\ UNCHANGED inputVars
    /\ UNCHANGED loadVars

\* lines 93 and 97: R, and the precision loop starts
RecallEnd ==
    /\ pc = "recall"
    /\ k = Len(src_sent)
    /\ R' = Divide(cur_sum, Len(src_sent))
    /\ cur_sum' = 0
    /\ k' = 0
    /\ pc' = "precision"
    /\ UNCHANGED <<src_sent, tgt_sent, scores, i, cur_max, P, F>>
    /\ UNCHANGED inputVars
    /\ UNCHANGED loadVars

\* lines 98-104: one target word
PrecisionWord ==
    /\ pc = "precision"
    /\ k < Len(tgt_sent)
    /\ cur_max' = PrecisionMax(tgt_sent[k + 1], src_sent)
    /\ cur_sum' = cur_sum + cur_max'
    /\ k' = k + 1
    /\ UNCHANGED <<pc, src_sent, tgt_sent, scores, i, R, P, F>>
    /\ UNCHANGED inputVars
    /\ UNCHANGED loadVars

\* line 105: P = cur_sum / len(tgt_sent)
Precision(sum, s, t) == Divide(sum, Len(t))

\* line 105: P
PrecisionEnd ==
    /\ pc = "precision"
    /\ k = Len(tgt_sent)
    /\ P' = Precision(cur_sum, src_sent, tgt_sent)
    /\ pc' = "f1"
    /\ UNCHANGED <<src_sent, tgt_sent, scores, i, k, cur_sum, cur_max, R, F>>
    /\ UNCHANGED inputVars
    /\ UNCHANGED loadVars

\* lines 108-110: F and its append
ScoreF1 ==
    /\ pc = "f1"
    /\ F' = F1(P, R)
    /\ scores' = AppendScore(scores, F')
    /\ i' = i + 1
    /\ pc' = "loop"
    /\ UNCHANGED <<src_sent, tgt_sent, k, cur_sum, cur_max, R, P>>
    /\ UNCHANGED inputVars
    /\ UNCHANGED loadVars

\* line 76: range(len(src_sentences)) is exhausted; main returns
ScoreLoopEnd ==
    /\ pc = "loop"
    /\ i = Len(src_sentences)
    /\ pc' = "done"
    /\ UNCHANGED <<src_sent, tgt_sent, scores, i, k, cur_sum, cur_max, R, P, F>>
    /\ UNCHANGED inputVars
    /\ UNCHANGED loadVars

NextMain ==
    \/ ReadCorpusLine \/ ReadSrcReturn \/ ReadTgtReturn
    \/ ScoreFallback \/ ScoreIndexError \/ RecallBegin \/ RecallWord
    \/ RecallEnd \/ PrecisionWord \/ PrecisionEnd \/ ScoreF1 \/ ScoreLoopEnd

SpecMain == InitMain /\ [][NextMain]_vars

\* ---------------------------------------------------------------
\* Properties of load_vec (checked under SpecLoad)
\* ---------------------------------------------------------------
DataLines == IF emb_file = <<>> THEN <<>> ELSE Tail(emb_file)

LoadFinished == lv_pc \in {"returned", "raised"}

\* The returned table holds exactly the first n data lines, in file order:
\* the word of data line p has index p-1 and row p-1.
TableIsPrefix(n) ==
    /\ lv_pc = "returned"
    /\ lv_ret # NoTable
    /\ Len(lv_ret[1].embeddings) = n
    /\ Cardinality(DOMAIN lv_ret[1].word2id) = n
    /\ Cardinality(DOMAIN lv_ret[1].id2word) = n
    /\ n <= Len(DataLines)
    /\ \A p \in 1..n :
          /\ DataLines[p].word \in DOMAIN lv_ret[1].word2id
          /\ lv_ret[1].word2id[DataLines[p].word] = p - 1
          /\ (p - 1) \in DOMAIN lv_ret[1].id2word
          /\ lv_ret[1].id2word[p - 1] = DataLines[p].word
          /\ lv_ret[1].embeddings[p] = DataLines[p].vect

UniqueWords == {DataLines[p].word : p \in {q \in 1..Len(DataLines) : DataLines[q].sep}}

\* The first n data lines are well formed, carry n distinct words and
\* vectors of one dimension.
CleanPrefix(n) ==
    /\ n <= Len(DataLines)
    /\ \A p \in 1..n : DataLines[p].sep
    /\ \A p, q \in 1..n : p # q => DataLines[p].word # DataLines[q].word
    /\ \A p, q \in 1..n : Len(DataLines[p].vect) = Len(DataLines[q].vect)

\* C1 as stated: whenever the data lines behind the header hold at least
\* nmax unique words,
\* load_vec returns a table of exactly nmax entries, the first nmax words of
\* the file in file order.
C1_CapAsStated ==
    (LoadFinished /\ emb_file # <<>> /\ Cardinality(UniqueWords) >= nmax) =>
        TableIsPrefix(nmax)

\* C1 (amended): for a cap nmax >= 1 and a file whose first nmax data lines
\* are well formed, carry nmax pairwise distinct words and vectors of one
\* dimension, load_vec never raises and the table it returns has exactly
\* nmax entries, the first nmax data lines in file order (the word of data
\* line i gets index i and row i).
C1_CapPrefix ==
    (nmax >= 1 /\ CleanPrefix(nmax)) =>
        /\ lv_pc # "raised"
        /\ LoadFinished => TableIsPrefix(nmax)

\* A cap of 2 on a file of 3 clean data lines: a strict prefix is returned.
C1_Witness ==
    /\ lv_pc = "returned"
    /\ nmax = 2
    /\ Len(DataLines) = 3
    /\ CleanPrefix(3)
    /\ Len(lv_ret[1].embeddings) = 2

\* C2: every table load_vec returns has as many keys in word2id as rows in
\* embeddings, its indices are exactly 0..rows-1 with one word each, and
\* id2word is the exact inverse of word2id.
C2_Uniqueness ==
    lv_pc = "returned" =>
        LET rows == Len(lv_ret[1].embeddings)
            w2i == lv_ret[1].word2id
            i2w == lv_ret[1].id2word
        IN  /\ Cardinality(DOMAIN w2i) = rows
            /\ Range(w2i) = 0..(rows - 1)
            /\ \A w1, w2 \in DOMAIN w2i : w2i[w1] = w2i[w2] => w1 = w2
            /\ DOMAIN i2w = 0..(rows - 1)
            /\ \A w \in DOMAIN w2i : i2w[w2i[w]] = w
            /\ \A n \in DOMAIN i2w : i2w[n] \in DOMAIN w2i /\ w2i[i2w[n]] = n

\* A returned table of three words.
C2_Witness ==
    /\ lv_pc = "returned"
    /\ Len(lv_ret[1].embeddings) = 3
    /\ Cardinality(DOMAIN lv_ret[1].word2id) = 3

\* Some word stands on two well-formed data lines p < q with q <= last.
DuplicateUpTo(last) ==
    \E p, q \in 1..Len(DataLines) :
        /\ p < q /\ q <= last
        /\ DataLines[p].sep /\ DataLines[q].sep
        /\ DataLines[p].word = DataLines[q].word

\* C3 as stated: whenever a word stands on two data lines of the file,
\* load_vec ends with an error and returns no table, for every cap.
C3_DuplicateAsStated ==
    (LoadFinished /\ DuplicateUpTo(Len(DataLines))) =>
        (lv_pc = "raised" /\ lv_ret = NoTable)

\* C3 (amended): whenever a word stands on two data lines that both lie
\* within the first nmax data lines (anywhere in the file when nmax < 1),
\* load_vec ends with an error and returns no table; a duplicate whose
\* second occurrence lies behind the cap is never read.
C3_DuplicateWithinCap ==
    DuplicateUpTo(IF nmax < 1 THEN Len(DataLines) ELSE nmax) =>
        /\ lv_pc # "returned"
        /\ lv_ret = NoTable
        /\ LoadFinished => (lv_pc = "raised" /\ lv_err # "none")

\* The assert of line 18 fired on the second occurrence of a word.
C3_Witness ==
    /\ lv_pc = "raised"
    /\ lv_err = "AssertionError"
    /\ nmax >= 2
    /\ DuplicateUpTo(nmax)
    /\ lv_ret = NoTable

\* ---------------------------------------------------------------
\* Properties of read_corpus and the scoring loop (checked under SpecMain)
\* ---------------------------------------------------------------
Reading == pc \in {"read_src", "read_tgt"}

\* C4: a pair with an empty source or target sequence gets exactly the
\* score 1 appended, whatever the other sequence holds, and the step
\* computes no precision, recall or F1: cur_sum, cur_max, R, P and F are
\* left alone and control is back at the loop head for the next pair.
C4_Fallback ==
    [][(/\ pc = "loop"
        /\ i < Len(src_sentences)
        /\ i < Len(tgt_sentences)
        /\ (src_sentences[i + 1] = <<>> \/ tgt_sentences[i + 1] = <<>>))
       => (/\ scores' = Append(scores, One)
           /\ i' = i + 1
           /\ pc' = "loop"
           /\ UNCHANGED <<k, cur_sum, cur_max, R, P, F>>)]_vars

\* The fallback score stands for a pair whose target alone is empty.
C4_Witness ==
    /\ pc = "loop"
    /\ i = 1
    /\ src_sentences[1] # <<>>
    /\ tgt_sentences[1] = <<>>
    /\ scores = <<One>>
    /\ cur_sum = None

\* C5: for non-empty A = src_sent and B = tgt_sent, scoring (B, A) yields
\* as P the R of (A, B), as R the P of (A, B), and the same F.
C5_Symmetry ==
    /\ pc \in {"precision", "f1"} => R = PrecisionOf(tgt_sent, src_sent)
    /\ pc = "f1" => P = RecallOf(tgt_sent, src_sent)
    /\ (pc = "loop" /\ i > 0 /\ src_sentences[i] # <<>> /\ tgt_sentences[i] # <<>>) =>
          /\ R = PrecisionOf(tgt_sent, src_sent)
          /\ P = RecallOf(tgt_sent, src_sent)
          /\ F = F1(PrecisionOf(tgt_sent, src_sent), RecallOf(tgt_sent, src_sent))
          /\ scores[i] = PairScore(tgt_sent, src_sent)

\* A scored pair whose P and R differ, so that the swap is visible.
C5_Witness ==
    /\ pc = "loop"
    /\ i = 1
    /\ Len(scores) = 1
    /\ Len(src_sentences[1]) = 2
    /\ Len(tgt_sentences[1]) = 1
    /\ P # R
    /\ F.d # 0

\* The subwords of a text, read off character by character: a space or a
\* hyphen ends a subword, a punctuation character is dropped, every other
\* character is kept in lower case.
RECURSIVE ScanSubwords(_, _)
ScanSubwords(text, cur) ==
    IF text = <<>> THEN <<cur>>
    ELSE LET c == Head(text)
         IN  IF c \in {" ", "-"}
             THEN <<cur>> \o ScanSubwords(Tail(text), <<>>)
             ELSE IF c \in Punctuation
             THEN ScanSubwords(Tail(text), cur)
             ELSE ScanSubwords(Tail(text), Append(cur, LowerChar(c)))

\* The vectors of the subwords of text that are keys of the table, in order.
ExpectedVectors(text, w2i, emb) ==
    LET sw == ScanSubwords(text, <<>>)
        RECURSIVE Pick(_)
        Pick(n) ==
            IF n > Len(sw) THEN <<>>
            ELSE IF sw[n] \in DOMAIN w2i
            THEN <<emb[w2i[sw[n]] + 1]>> \o Pick(n + 1)
            ELSE Pick(n + 1)
    IN  Pick(1)

\* the text of a line: the line without its newline
Text(line) ==
    IF line # <<>> /\ line[Len(line)] = "\n" THEN SubSeq(line, 1, Len(line) - 1) ELSE line

\* what read_corpus has produced so far, per file
SrcRead == IF pc = "read_src" THEN sentences ELSE src_sentences
TgtRead ==
    IF pc = "read_src" THEN <<>> ELSE IF pc = "read_tgt" THEN sentences ELSE tgt_sentences

\* C6 as stated: every line yields exactly the vectors of its subwords that
\* are keys of the table, in order, the subwords being those of the line
\* split on single spaces.
C6_VectorizationAsStated ==
    /\ \A n \in 1..Len(SrcRead) :
          SrcRead[n] = ExpectedVectors(Text(src_lines[n]), src_word2id, src_embeddings)
    /\ \A n \in 1..Len(TgtRead) :
          TgtRead[n] = ExpectedVectors(Text(tgt_lines[n]), tgt_word2id, tgt_embeddings)

\* C6 (amended): every line yields exactly the vectors of its subwords that
\* are keys of the table, in left-to-right order, the subwords being those
\* of the line with its leading and trailing whitespace removed: split on
\* single spaces, lowercased, the characters " , . : ! ? ( ) deleted, split
\* on every hyphen. A subword absent from the table contributes nothing.
C6_Vectorization ==
    /\ \A n \in 1..Len(SrcRead) :
          SrcRead[n] =
            ExpectedVectors(Strip(Text(src_lines[n])), src_word2id, src_embeddings)
    /\ \A n \in 1..Len(TgtRead) :
          TgtRead[n] =
            ExpectedVectors(Strip(Text(tgt_lines[n])), tgt_word2id, tgt_embeddings)

\* Hello, world-wide! yields the rows of hello, world and wide, in order.
C6_Witness ==
    /\ pc = "read_tgt"
    /\ src_lines = <<HelloLine>>
    /\ src_sentences = << << <<1, 0>>, <<0, 1>>, <<2, 1>> >> >>

\* C7: corpora of different line counts never let the scoring loop run to
\* its end.
C7_LengthMismatch ==
    Len(src_lines) # Len(tgt_lines) => pc # "done"

\* C8: every score the loop appends is a number: no division by zero has
\* produced NaN or an infinity.
C8_ZeroSumDecided ==
    \A n \in 1..Len(scores) : scores[n].d # 0

Max(S) == CHOOSE m \in S : \A x \in S : x <= m

\* the average over the words of a of the best dot product with a word of b
MeanOfMaxima(a, b) ==
    LET RECURSIVE Sum(_)
        Sum(n) ==
            IF n = 0 THEN 0
            ELSE Sum(n - 1) + Max({Dot(a[n], b[m]) : m \in 1..Len(b)})
    IN  Divide(Sum(Len(a)), Len(a))

\* C9: after the inner loop the running maximum is one of the dot products
\* just computed; R is the mean over the source words of the best dot
\* product with a target word, P the mean over the target words of the best
\* dot product with a source word.
C9_GreedyMaxima ==
    /\ (pc = "recall" /\ k > 0) =>
          cur_max \in {Dot(src_sent[k], tgt_sent[m]) : m \in 1..Len(tgt_sent)}
    /\ (pc = "precision" /\ k > 0) =>
          cur_max \in {Dot(src_sent[m], tgt_sent[k]) : m \in 1..Len(src_sent)}
    /\ pc \in {"precision", "f1"} => R = MeanOfMaxima(src_sent, tgt_sent)
    /\ pc = "f1" => P = MeanOfMaxima(tgt_sent, src_sent)

\* C10: for corpora of the same number of lines, read_corpus returns one
\* vector sequence per line (that of the line at the same position), the
\* loop head of iteration i sees exactly i scores, score n is the score of
\* line pair n, no index error occurs, and the finished list has one score
\* per line.
C10_Positional ==
    Len(src_lines) = Len(tgt_lines) =>
        /\ pc # "IndexError"
        /\ pc # "read_src" =>
              /\ Len(src_sentences) = Len(src_lines)
              /\ \A n \in 1..Len(src_lines) :
                    src_sentences[n] =
                      LineVectors(src_lines[n], src_word2id, src_embeddings)
        /\ ~Reading =>
              /\ Len(tgt_sentences) = Len(tgt_lines)
              /\ \A n \in 1..Len(tgt_lines) :
                    tgt_sentences[n] =
                      LineVectors(tgt_lines[n], tgt_word2id, tgt_embeddings)
              /\ Len(scores) = i
              /\ \A n \in 1..Len(scores) :
                    scores[n] = PairScore(src_sentences[n], tgt_sentences[n])
        /\ pc = "done" => Len(scores) = Len(src_lines)

\* An empty first line gets the fallback and the second pair keeps its place.
C10_Witness ==
    /\ pc = "done"
    /\ Len(src_lines) = 2
    /\ Len(tgt_lines) = 2
    /\ src_sentences[1] = <<>>
    /\ Len(src_sentences[2]) = 2
    /\ tgt_sentences[2] # <<>>
    /\ scores[1] = One
    /\ scores[2] # One

====
